---- MODULE Spec2Model ----
(***************************************************************************)
(* The log viewer of src/js/config.js: the paging / live-tail client       *)
(* (logViewerState, loadLogs, startLogAutoRefresh, stopLogAutoRefresh, the *)
(* handlers bound by bindLogViewerHandlers) together with the log store it *)
(* talks to over GET /api/logs, POST /api/logs/purge and /api/logs/settings,*)
(* and the view switching of src/js/app.js and src/js/config.js that shows *)
(* and hides the log view.                                                 *)
(*                                                                         *)
(* A JavaScript null is written Null (the empty sequence) and a present    *)
(* value v is written Some(v), so that a field which is "null or a number" *)
(* stays comparable.                                                       *)
(***************************************************************************)
EXTENDS Integers, Sequences, FiniteSets, TLC

Null == <<>>
Some(x) == <<x>>
Val(o) == o[1]

(* ------------------------------ bounds -------------------------------- *)
\* the store never holds more than MaxStore entries per generation
MaxStore == 4
\* the page size the client asks for (LOG_PAGE_SIZE, scaled down)
PageSize == 2
\* purge requests in flight at the same time
MaxPurgeFlights == 1
\* POST /api/logs/settings requests in flight at the same time
MaxSaveFlights == 2
\* entries held by the client when the store may list any record in a page
MaxHeld == 3
\* entries the store holds in the sessions checked for progress
MaxLiveStore == 1

(* --------------------------- program constants ------------------------ *)
CONFIG_TAB_DEVICES == "devices"
CONFIG_TAB_LOGS == "logs"

\* the level names, lowest first (two of the five the program knows)
LevelNames == <<"DEBUG", "INFO">>

\* logViewerState.options.levels before any metadata is loaded
DefaultLevels == {LevelNames[k] : k \in 1..Len(LevelNames)}

\* DEFAULT_LOG_SETTINGS, reduced to its level
DEFAULT_LOG_SETTINGS == "INFO"

\* the values the filter form can hold with the level left at "All Levels":
\* no source selected, or "web"
FilterChoices == {[level |-> "", sources |-> {}], [level |-> "", sources |-> {"web"}]}

\* the values the filter form can hold, level included
LevelFilterChoices == [level : {""} \cup DefaultLevels, sources : {{}, {"web"}}]

\* the level the settings form can hold when it is submitted
SettingsChoices == DefaultLevels

VARIABLES
  logViewerState,   \* the client's state object
  flights,          \* GET /api/logs requests issued and not yet resolved
  purges,           \* POST /api/logs/purge requests not yet resolved
  metaFlight,       \* GET /api/logs/settings issued by the initial load
  timers,           \* interval timers armed with window.setInterval
  store,            \* number of entries the store holds (indices 0..store-1)
  micboard,         \* micboard.settingsMode and micboard.configTab
  hidden,           \* document.hidden
  saves,            \* POST /api/logs/settings requests not yet resolved
  logging           \* the logging configuration the store has active

\* The status line (#logs-status) is written by the handlers and never read
\* back, so it is not part of the state.
vars == <<logViewerState, flights, purges, metaFlight, timers, store,
          micboard, hidden, saves, logging>>

(* ------------------------------ the store ----------------------------- *)
\* every second entry comes from the "web" logger, the others from "core"
SourceOf(i) == IF i % 2 = 1 THEN "web" ELSE "core"

\* every third entry is logged at DEBUG, the others at INFO
LevelOf(i) == IF i % 3 = 0 THEN "DEBUG" ELSE "INFO"

LevelRank(l) == CHOOSE k \in 1..Len(LevelNames) : LevelNames[k] = l

\* server-side filter: level is a minimum level, no source given means
\* every source
Matches(i, f) ==
  /\ f.sources = {} \/ SourceOf(i) \in f.sources
  /\ f.level = "" \/ LevelRank(LevelOf(i)) >= LevelRank(f.level)

Max(S) == CHOOSE x \in S : \A y \in S : y <= x
Min(S) == CHOOSE x \in S : \A y \in S : x <= y

RECURSIVE DescSeq(_)
DescSeq(S) == IF S = {} THEN <<>> ELSE <<Max(S)>> \o DescSeq(S \ {Max(S)})

RECURSIVE AscSeq(_)
AscSeq(S) == IF S = {} THEN <<>> ELSE <<Min(S)>> \o AscSeq(S \ {Min(S)})

RECURSIVE TopN(_, _)
TopN(S, n) == IF n = 0 \/ S = {} THEN {} ELSE {Max(S)} \cup TopN(S \ {Max(S)}, n - 1)

RECURSIVE BottomN(_, _)
BottomN(S, n) == IF n = 0 \/ S = {} THEN {} ELSE {Min(S)} \cup BottomN(S \ {Min(S)}, n - 1)

\* an entry as the store serialises it: index and cursor both carry the index
RawEntry(i) == [index |-> Some(i), cursor |-> Some(i), source |-> SourceOf(i)]

RawSeq(idxs) == [k \in 1..Len(idxs) |-> RawEntry(idxs[k])]

\* GET /api/logs: one page in the requested direction, its boundary cursor
\* and whether more entries lie beyond the page in that direction
ReadLogs(n, req) ==
  LET m == {i \in 0..(n - 1) : Matches(i, req.filters)}
  IN IF req.newer
     THEN LET cand == IF req.cursor = Null THEN {} ELSE {i \in m : i > Val(req.cursor)}
              page == BottomN(cand, req.limit)
          IN [ok |-> TRUE,
              entries |-> RawSeq(AscSeq(page)),
              cursor |-> IF page = {} THEN Null ELSE Some(Max(page)),
              has_more |-> cand \ page # {}]
     ELSE LET cand == IF req.cursor = Null THEN m ELSE {i \in m : i < Val(req.cursor)}
              page == TopN(cand, req.limit)
          IN [ok |-> TRUE,
              entries |-> RawSeq(DescSeq(page)),
              cursor |-> IF page = {} THEN Null ELSE Some(Min(page)),
              has_more |-> cand \ page # {}]

\* a transport error, a non-2xx status, malformed JSON or {ok: false}
FailedResponse == [ok |-> FALSE, entries |-> <<>>, cursor |-> Null, has_more |-> FALSE]

\* a record the store serialises with neither index nor cursor
IndexLessEntry == [index |-> Null, cursor |-> Null, source |-> "core"]

\* a page of a store of which nothing is assumed about how it selects: the
\* entries idxs in the order asked for, after a record without index
RawPage(idxs, less, newer) ==
  (IF less THEN <<IndexLessEntry>> ELSE <<>>)
    \o RawSeq(IF newer THEN AscSeq(idxs) ELSE DescSeq(idxs))

(* ------------------------------ the client ---------------------------- *)
\* normalizeEntry that gives an entry without index the index 0
normalizeEntry_zero(raw) ==
  LET field == IF raw.index # Null THEN raw.index ELSE raw.cursor
      idx == IF field # Null /\ Val(field) >= 0 THEN Val(field) ELSE 0
  IN [index |-> idx, source |-> raw.source]

\* parseInt(entry.index != null ? entry.index : entry.cursor, 10), then
\* index := idx when it is a finite number >= 0, else -1
normalizeEntry(raw) ==
  LET field == IF raw.index # Null THEN raw.index ELSE raw.cursor
      idx == IF field # Null /\ Val(field) >= 0 THEN Val(field) ELSE -1
  IN [index |-> idx, source |-> raw.source]

\* the comparator key (x.index || 0)
IndexOrZero(e) == IF e.index = 0 THEN 0 ELSE e.index

RECURSIVE InsertDesc(_, _)
InsertDesc(e, seq) ==
  IF seq = <<>> THEN <<e>>
  ELSE IF IndexOrZero(Head(seq)) >= IndexOrZero(e)
       THEN <<Head(seq)>> \o InsertDesc(e, Tail(seq))
       ELSE <<e>> \o seq

\* sortEntries with the sort left out
sortEntries_unsorted(seq) == seq

RECURSIVE sortEntries(_)
\* Array.prototype.sort((a, b) => (b.index || 0) - (a.index || 0)): stable, descending
sortEntries(seq) ==
  IF seq = <<>> THEN <<>>
  ELSE LET n == Len(seq) IN InsertDesc(seq[n], sortEntries(SubSeq(seq, 1, n - 1)))

\* reduceLatest with the comparison left out: the last index visited wins
reduceLatest_last(seq, max) == IF seq = <<>> THEN max ELSE seq[Len(seq)].index

RECURSIVE reduceLatest(_, _)
\* entries.reduce((max, e) => e.index > max ? e.index : max, latestIndex)
reduceLatest(seq, max) ==
  IF seq = <<>> THEN max
  ELSE reduceLatest(Tail(seq), IF Head(seq).index > max THEN Head(seq).index ELSE max)

SelectSeqGt(seq, bound) == SelectSeq(seq, LAMBDA e : e.index > bound)

\* the view: the four fields a page load owns
View(s) == [entries |-> s.entries, nextCursor |-> s.nextCursor,
            hasMore |-> s.hasMore, latestIndex |-> s.latestIndex]

EmptyView == [entries |-> <<>>, nextCursor |-> Null, hasMore |-> FALSE, latestIndex |-> -1]

\* loadLogsBusy with the loading gate left out
loadLogsBusy_ungated(s) == FALSE

\* if (logViewerState.loading) ... return
loadLogsBusy(s) == s.loading

\* coalesce in which the last call replaces the calls waiting
coalesce_lastCallWins(pending, reset, newer) == [reset |-> reset, newer |-> newer]

\* pending = { reset: reset || pending.reset, newer: newer || pending.newer }
coalesce(pending, reset, newer) ==
  [reset |-> reset \/ (pending # Null /\ Val(pending).reset),
   newer |-> newer \/ (pending # Null /\ Val(pending).newer)]

\* clearView with the held entries left in place
clearView_keepsEntries(s) ==
  [s EXCEPT !.nextCursor = Null, !.hasMore = FALSE, !.latestIndex = -1]

\* if (reset) { entries = []; nextCursor = null; hasMore = false; latestIndex = -1 }
clearView(s) ==
  [s EXCEPT !.entries = <<>>, !.nextCursor = Null, !.hasMore = FALSE, !.latestIndex = -1]

\* buildParams that sends the Load Older cursor in both directions
buildParams_olderCursor(s, reset, newer, pre) ==
  [reset |-> reset,
   newer |-> newer,
   limit |-> PageSize,
   filters |-> s.filters,
   direction |-> IF newer THEN "asc" ELSE "desc",
   cursor |-> IF ~reset /\ s.nextCursor # Null THEN s.nextCursor ELSE Null,
   kept |-> (pre = View(s)),
   resp |-> Null]

\* the query string of the request.  kept records whether the call left the
\* view as it was before the call; it is carried with the request only so
\* that properties can refer to it
buildParams(s, reset, newer, pre) ==
  [reset |-> reset,
   newer |-> newer,
   limit |-> PageSize,
   filters |-> s.filters,
   direction |-> IF newer THEN "asc" ELSE "desc",
   cursor |-> IF newer
              THEN (IF s.latestIndex >= 0 THEN Some(s.latestIndex) ELSE Null)
              ELSE (IF ~reset /\ s.nextCursor # Null THEN s.nextCursor ELSE Null),
   kept |-> (pre = View(s)),
   resp |-> Null]

\* loadLogs that ignores a call made while a request is in flight
loadLogs_dropsWhenBusy(W, reset, newer) ==
  IF loadLogsBusy(W.s) THEN W
  ELSE LET s1 == IF reset THEN clearView(W.s) ELSE W.s
           s2 == [s1 EXCEPT !.loading = TRUE]
       IN [s |-> s2, f |-> Append(W.f, buildParams(s2, reset, newer, View(W.s)))]

\* loadLogs up to its first await.  W = [s |-> logViewerState, f |-> flights]
loadLogs(W, reset, newer) ==
  IF loadLogsBusy(W.s)
  THEN [W EXCEPT !.s.pending = Some(coalesce(W.s.pending, reset, newer))]
  ELSE LET s1 == IF reset THEN clearView(W.s) ELSE W.s
           s2 == [s1 EXCEPT !.loading = TRUE]
       IN [s |-> s2, f |-> Append(W.f, buildParams(s2, reset, newer, View(W.s)))]

\* mergeEntries whose live-tail branch replaces the held entries by the fresh ones
mergeEntries_dropsHeld(s, req, batch) ==
  IF req.newer THEN SelectSeqGt(sortEntries(batch), s.latestIndex)
  ELSE IF req.reset THEN batch
  ELSE s.entries \o batch

\* mergeEntries whose Load Older branch keeps only the page just fetched
mergeEntries_olderReplaces(s, req, batch) ==
  IF req.newer
  THEN IF batch # <<>>
       THEN LET fresh == SelectSeqGt(sortEntries(batch), s.latestIndex)
            IN IF fresh # <<>> THEN fresh \o s.entries ELSE s.entries
       ELSE s.entries
  ELSE batch

\* mergeEntries whose live-tail branch keeps the batch entries already known
mergeEntries_keepsKnown(s, req, batch) ==
  IF req.newer
  THEN IF batch # <<>> THEN sortEntries(batch) \o s.entries ELSE s.entries
  ELSE IF req.reset THEN batch
  ELSE s.entries \o batch

\* the three merge branches of the success path
mergeEntries(s, req, batch) ==
  IF req.newer
  THEN IF batch # <<>>
       THEN LET fresh == SelectSeqGt(sortEntries(batch), s.latestIndex)
            IN IF fresh # <<>> THEN fresh \o s.entries ELSE s.entries
       ELSE s.entries
  ELSE IF req.reset THEN batch
  ELSE s.entries \o batch

\* the success path from the response to the end of the try block
applyResponse(s, req, data) ==
  LET batch == [k \in 1..Len(data.entries) |-> normalizeEntry(data.entries[k])]
      sorted == sortEntries(mergeEntries(s, req, batch))
  IN [s EXCEPT !.entries = sorted,
               !.latestIndex = reduceLatest(sorted, s.latestIndex),
               !.nextCursor = data.cursor,
               !.hasMore = data.has_more]

\* applyFailure that also empties the view
applyFailure_clears(s, req) == clearView(s)

\* the catch block: only the status line is written
applyFailure(s, req) == s

\* finallyReplay that leaves loading set
finallyReplay_staysLoading(W) ==
  IF W.s.pending # Null
  THEN loadLogs([W EXCEPT !.s.pending = Null], Val(W.s.pending).reset, Val(W.s.pending).newer)
  ELSE W

\* finallyReplay that opens the gate and leaves the coalesced call where it is
finallyReplay_forgetsReplay(W) == [W EXCEPT !.s.loading = FALSE]

\* the finally block: loading = false, then the coalesced call is replayed
finallyReplay(W) ==
  LET W1 == [W EXCEPT !.s.loading = FALSE]
  IN IF W1.s.pending # Null
     THEN loadLogs([W1 EXCEPT !.s.pending = Null], Val(W1.s.pending).reset, Val(W1.s.pending).newer)
     ELSE W1

RemoveAt(seq, i) == SubSeq(seq, 1, i - 1) \o SubSeq(seq, i + 1, Len(seq))

\* stopTimerState that leaves the handle in pollTimer
stopTimerState_keepsHandle(s) ==
  IF ~s.autoRefresh THEN s
  ELSE [s EXCEPT !.autoRefresh = FALSE]

\* clearInterval(pollTimer); pollTimer = null, when live tail is on
stopTimerState(s) ==
  IF ~s.autoRefresh THEN s
  ELSE [s EXCEPT !.autoRefresh = FALSE, !.pollTimer = Null]

\* stopTimerSet without the call of clearInterval
stopTimerSet_keepsInterval(s, T) == T

stopTimerSet(s, T) ==
  IF s.autoRefresh /\ s.pollTimer # Null THEN T \ {Val(s.pollTimer)} ELSE T

\* window.setInterval returns a handle no armed timer uses
NewTimer(T) == Min({t \in 1..(Cardinality(T) + 1) : t \notin T})

W0 == [s |-> logViewerState, f |-> flights]

\* the program state the view-switching functions work on
C0 == [s |-> logViewerState, f |-> flights, meta |-> metaFlight, T |-> timers, m |-> micboard]

\* loadLogs called from a function that works on C0
callLoadLogs(C, reset, newer) ==
  LET W == loadLogs([s |-> C.s, f |-> C.f], reset, newer)
  IN [C EXCEPT !.s = W.s, !.f = W.f]

\* stopLogAutoRefresh
stopLogAutoRefresh(C) ==
  [C EXCEPT !.s = stopTimerState(C.s), !.T = stopTimerSet(C.s, C.T)]

\* startLogAutoRefresh with the autoRefresh test left out
startLogAutoRefresh_again(C) ==
  LET C1 == callLoadLogs([C EXCEPT !.s.autoRefresh = TRUE], FALSE, TRUE)
      t == NewTimer(C1.T)
  IN [C1 EXCEPT !.s.pollTimer = Some(t), !.T = C1.T \cup {t}]

\* startLogAutoRefresh
startLogAutoRefresh(C) ==
  IF C.s.autoRefresh THEN C
  ELSE LET C1 == callLoadLogs([C EXCEPT !.s.autoRefresh = TRUE], FALSE, TRUE)
           t == NewTimer(C1.T)
       IN [C1 EXCEPT !.s.pollTimer = Some(t), !.T = C1.T \cup {t}]

\* ensureLogViewerInitialized: bind the handlers, start the metadata fetch
ensureLogViewerInitialized(C) ==
  IF C.s.initialized THEN C
  ELSE [C EXCEPT !.s.initialized = TRUE, !.meta = TRUE]

\* setConfigTab(tabName, {forceReload})
setConfigTab(C, tabName, forceReload) ==
  LET target == IF tabName = CONFIG_TAB_LOGS THEN CONFIG_TAB_LOGS ELSE CONFIG_TAB_DEVICES
      C1 == [C EXCEPT !.m.configTab = target]
  IN IF target = CONFIG_TAB_LOGS
     THEN LET C2 == ensureLogViewerInitialized(C1)
          IN IF forceReload THEN callLoadLogs(C2, TRUE, FALSE) ELSE C2
     ELSE stopLogAutoRefresh(C1)

\* initConfigEditor(force)
initConfigEditor(C, force) ==
  IF ~force /\ C.m.settingsMode = "CONFIG" THEN C
  ELSE setConfigTab([C EXCEPT !.m.settingsMode = "CONFIG"], C.m.configTab, force)

\* updateLogControls: which buttons are disabled
updateLogControls(s) ==
  [refresh |-> s.loading,
   loadOlder |-> s.loading \/ ~s.hasMore,
   purge |-> s.loading,
   follow |-> s.loading /\ ~s.autoRefresh]

\* the log view (#config-logs-view) is on screen
LogViewShown ==
  /\ micboard.settingsMode = "CONFIG"
  /\ micboard.configTab = CONFIG_TAB_LOGS
  /\ ~hidden

\* what the filter form offers: any value before renderLogFilters has run,
\* afterwards "All Levels" or a level of options.levels, and sources out of
\* options.sources
FormOffers(s, f) ==
  s.options.sources = {}
    \/ (f.sources \subseteq s.options.sources /\ f.level \in ({""} \cup s.options.levels))

\* updateLogFiltersFromForm
updateLogFiltersFromForm(W, f) == [W EXCEPT !.s.filters = f]

\* what GET /api/logs/settings can answer: the level names and the logger
\* sources the store recognises
MetadataChoices == [levels : {{"INFO"}, DefaultLevels}, sources : {{"core"}, {"core", "web"}}]

\* the GET /api/logs/settings answer of a store that recognises every level
\* and both sources
MetadataRecognisesAll == {d \in MetadataChoices : d.levels = DefaultLevels /\ "web" \in d.sources}

\* pruneFilters that keeps what the store no longer recognises
pruneFilters_keeps(filters, options) == filters

\* filters no longer valid are dropped
pruneFilters(filters, options) ==
  [level |-> IF filters.level # "" /\ filters.level \notin options.levels THEN "" ELSE filters.level,
   sources |-> {x \in filters.sources : x \in options.sources}]

\* refreshLogMetadata after its await, up to the call of loadLogs
applyMetadata(s, data) ==
  LET options == [levels |-> IF data.levels # {} THEN data.levels ELSE s.options.levels,
                  sources |-> data.sources]
  IN [s EXCEPT !.options = options,
               !.filters = pruneFilters(s.filters, options),
               !.settings = IF data.logging # Null THEN data.logging
                            ELSE IF s.settings # Null THEN s.settings
                            ELSE Some(DEFAULT_LOG_SETTINGS)]

\* saveSucceeded that stores the payload whatever the answer
saveSucceeded_optimistic(s, req) == [s EXCEPT !.settings = Some(req.payload)]

\* saveLogSettings after its await: settings = data.logging || payload
saveSucceeded(s, req) ==
  LET data == Val(req.resp)
  IN IF data.ok
     THEN [s EXCEPT !.settings = IF data.logging # Null THEN data.logging ELSE Some(req.payload)]
     ELSE s

(* ------------------------------- Init --------------------------------- *)
Init ==
  /\ logViewerState = [initialized |-> FALSE, loading |-> FALSE, autoRefresh |-> FALSE,
                       pollTimer |-> Null, entries |-> <<>>,
                       filters |-> [level |-> "", sources |-> {}],
                       nextCursor |-> Null, hasMore |-> FALSE, latestIndex |-> -1,
                       options |-> [levels |-> DefaultLevels, sources |-> {}],
                       settings |-> Null,
                       pending |-> Null]
  /\ flights = <<>>
  /\ purges = <<>>
  /\ metaFlight = FALSE
  /\ timers = {}
  /\ store \in 0..MaxStore
  /\ micboard = [settingsMode |-> "NONE", configTab |-> CONFIG_TAB_DEVICES]
  /\ hidden = FALSE
  /\ saves = <<>>
  /\ logging = DEFAULT_LOG_SETTINGS

(* ------------------------------ actions ------------------------------- *)
\* the application writes a log record
StoreAppend ==
  /\ store < MaxStore
  /\ store' = store + 1
  /\ UNCHANGED <<logViewerState, flights, purges, metaFlight, timers, micboard, hidden, saves, logging>>

Commit(C) ==
  /\ logViewerState' = C.s
  /\ flights' = C.f
  /\ metaFlight' = C.meta
  /\ timers' = C.T
  /\ micboard' = C.m

\* #go-config is clicked: initConfigEditor()
GoConfig ==
  /\ ~hidden
  /\ micboard.settingsMode # "CONFIG"
  /\ Commit(initConfigEditor(C0, FALSE))
  /\ UNCHANGED <<purges, store, hidden, saves, logging>>

\* a [data-config-tab] button is clicked: setConfigTab(target)
ConfigTabClick(tab) ==
  /\ ~hidden
  /\ micboard.settingsMode = "CONFIG"
  /\ Commit(setConfigTab(C0, tab, FALSE))
  /\ UNCHANGED <<purges, store, hidden, saves, logging>>

\* #go-pco is clicked: showPCOView
ShowPCOView ==
  /\ ~hidden
  /\ Commit([stopLogAutoRefresh(C0) EXCEPT !.m.settingsMode = "PCO"])
  /\ UNCHANGED <<purges, store, hidden, saves, logging>>

\* #pco-close is clicked: closePCOView
ClosePCOView ==
  /\ ~hidden
  /\ micboard.settingsMode = "PCO"
  /\ Commit(initConfigEditor([C0 EXCEPT !.m.settingsMode = "CONFIG"], TRUE))
  /\ UNCHANGED <<purges, store, hidden, saves, logging>>

\* #go-background is clicked: openBackground, then resetViews
OpenBackground ==
  /\ ~hidden
  /\ micboard' = [micboard EXCEPT !.settingsMode = "BACKGROUND"]
  /\ UNCHANGED <<logViewerState, flights, purges, metaFlight, timers, store, hidden, saves, logging>>

\* #background-close is clicked
BackgroundClose ==
  /\ ~hidden
  /\ micboard.settingsMode = "BACKGROUND"
  /\ micboard' = [micboard EXCEPT !.settingsMode = "NONE"]
  /\ UNCHANGED <<logViewerState, flights, purges, metaFlight, timers, store, hidden, saves, logging>>

\* #close-settings-inline is clicked
InlineClose ==
  /\ ~hidden
  /\ micboard.settingsMode = "CONFIG"
  /\ Commit([stopLogAutoRefresh(C0) EXCEPT !.m.settingsMode = "NONE"])
  /\ UNCHANGED <<purges, store, hidden, saves, logging>>

\* visibilitychange: the listener is bound with the log viewer's handlers
VisibilityChange ==
  /\ hidden' = ~hidden
  /\ IF hidden' /\ logViewerState.initialized
     THEN Commit(stopLogAutoRefresh(C0))
     ELSE UNCHANGED <<logViewerState, flights, metaFlight, timers, micboard>>
  /\ UNCHANGED <<purges, store, saves, logging>>

\* refreshLogMetadata({initial: true}) resolves: await loadLogs({reset: true})
MetadataLoaded(d) ==
  /\ metaFlight
  /\ metaFlight' = FALSE
  /\ LET data == [levels |-> d.levels, sources |-> d.sources, logging |-> Some(logging)]
         W == loadLogs([W0 EXCEPT !.s = applyMetadata(logViewerState, data)], TRUE, FALSE)
     IN logViewerState' = W.s /\ flights' = W.f
  /\ UNCHANGED <<purges, timers, store, micboard, hidden, saves, logging>>

MetadataFailed ==
  /\ metaFlight
  /\ metaFlight' = FALSE
  /\ UNCHANGED <<logViewerState, flights, purges, timers, store, micboard, hidden, saves, logging>>

\* the filter form is submitted: updateLogFiltersFromForm(); loadLogs({reset: true})
FilterSubmit(f) ==
  /\ LogViewShown
  /\ FormOffers(logViewerState, f)
  /\ LET W == loadLogs(updateLogFiltersFromForm(W0, f), TRUE, FALSE)
     IN logViewerState' = W.s /\ flights' = W.f
  /\ UNCHANGED <<purges, metaFlight, timers, store, micboard, hidden, saves, logging>>

\* #logs-refresh is clicked (the button is disabled while loading)
RefreshClick(f) ==
  /\ LogViewShown
  /\ FormOffers(logViewerState, f)
  /\ ~updateLogControls(logViewerState).refresh
  /\ LET W == loadLogs(updateLogFiltersFromForm(W0, f), TRUE, FALSE)
     IN logViewerState' = W.s /\ flights' = W.f
  /\ UNCHANGED <<purges, metaFlight, timers, store, micboard, hidden, saves, logging>>

\* #logs-load-older is clicked (disabled while loading or when !hasMore)
LoadOlderClick ==
  /\ LogViewShown
  /\ ~updateLogControls(logViewerState).loadOlder
  /\ logViewerState.hasMore
  /\ LET W == loadLogs(W0, FALSE, FALSE)
     IN logViewerState' = W.s /\ flights' = W.f
  /\ UNCHANGED <<purges, metaFlight, timers, store, micboard, hidden, saves, logging>>

\* startLogAutoRefresh, from #logs-toggle-follow (disabled while loading and off)
StartLiveTail ==
  /\ LogViewShown
  /\ ~logViewerState.autoRefresh
  /\ ~updateLogControls(logViewerState).follow
  /\ Commit(startLogAutoRefresh(C0))
  /\ UNCHANGED <<purges, store, hidden, saves, logging>>

\* stopLogAutoRefresh(), from #logs-toggle-follow
StopLiveTail ==
  /\ LogViewShown
  /\ logViewerState.autoRefresh
  /\ ~updateLogControls(logViewerState).follow
  /\ Commit(stopLogAutoRefresh(C0))
  /\ UNCHANGED <<purges, store, hidden, saves, logging>>

\* an interval timer fires: loadLogs({newer: true})
Tick ==
  /\ timers # {}
  /\ LET W == loadLogs(W0, FALSE, TRUE)
     IN logViewerState' = W.s /\ flights' = W.f
  /\ UNCHANGED <<purges, metaFlight, timers, store, micboard, hidden, saves, logging>>

\* the store answers a GET /api/logs request, from what it holds now
ServerAnswer(i, reversed) ==
  /\ flights[i].resp = Null
  /\ LET data == ReadLogs(store, flights[i])
         n == Len(data.entries)
         out == IF reversed
                THEN [data EXCEPT !.entries = [k \in 1..n |-> data.entries[n + 1 - k]]]
                ELSE data
     IN flights' = [flights EXCEPT ![i].resp = Some(out)]
  /\ UNCHANGED <<logViewerState, purges, metaFlight, timers, store, micboard, hidden, saves, logging>>

\* the request fails before or at the server
ServerFail(i) ==
  /\ flights[i].resp = Null
  /\ flights' = [flights EXCEPT ![i].resp = Some(FailedResponse)]
  /\ UNCHANGED <<logViewerState, purges, metaFlight, timers, store, micboard, hidden, saves, logging>>

\* the store answers with any of its entries and, when less is set, a record
\* without index: the cursor is the boundary index of the page and has_more
\* is set when the page is full
ServerAnswerRaw(i, idxs, less) ==
  /\ flights[i].resp = Null
  /\ LET page == RawPage(idxs, less, flights[i].newer)
     IN /\ Len(page) <= flights[i].limit
        /\ Len(logViewerState.entries) + Len(page) <= MaxHeld
        /\ flights' = [flights EXCEPT ![i].resp =
                         Some([ok |-> TRUE,
                               entries |-> page,
                               cursor |-> IF idxs = {} THEN Null
                                          ELSE IF flights[i].newer THEN Some(Max(idxs))
                                          ELSE Some(Min(idxs)),
                               has_more |-> Len(page) = flights[i].limit])]
  /\ UNCHANGED <<logViewerState, purges, metaFlight, timers, store, micboard, hidden, saves, logging>>

\* loadLogs resumes with a good response: merge, then finally
LoadLogsOk(i) ==
  /\ flights[i].resp # Null
  /\ Val(flights[i].resp).ok
  /\ LET req == flights[i]
         data == Val(req.resp)
         W == finallyReplay([s |-> applyResponse(logViewerState, req, data),
                             f |-> RemoveAt(flights, i)])
     IN /\ logViewerState' = W.s
        /\ flights' = W.f
        /\ UNCHANGED <<purges, metaFlight, timers, store, micboard, hidden, saves, logging>>

\* loadLogs resumes with a failure: catch, then finally
LoadLogsFailed(i) ==
  /\ flights[i].resp # Null
  /\ ~Val(flights[i].resp).ok
  /\ LET req == flights[i]
         W == finallyReplay([s |-> applyFailure(logViewerState, req),
                             f |-> RemoveAt(flights, i)])
     IN /\ logViewerState' = W.s
        /\ flights' = W.f
  /\ UNCHANGED <<purges, metaFlight, timers, store, micboard, hidden, saves, logging>>

\* #logs-purge is clicked (disabled while loading) and the prompt is declined
PurgeDeclined ==
  /\ LogViewShown
  /\ ~updateLogControls(logViewerState).purge
  /\ UNCHANGED vars

\* #logs-purge is clicked and confirmed: POST /api/logs/purge is sent
PurgeConfirmed ==
  /\ LogViewShown
  /\ ~updateLogControls(logViewerState).purge
  /\ Len(purges) < MaxPurgeFlights
  /\ purges' = Append(purges, "sent")
  /\ UNCHANGED <<logViewerState, flights, metaFlight, timers, store, micboard, hidden, saves, logging>>

\* the store truncates the log
ServerPurge(i) ==
  /\ purges[i] = "sent"
  /\ purges' = [purges EXCEPT ![i] = "ok"]
  /\ store' = 0
  /\ UNCHANGED <<logViewerState, flights, metaFlight, timers, micboard, hidden, saves, logging>>

\* the purge request fails
ServerPurgeFail(i) ==
  /\ purges[i] = "sent"
  /\ purges' = [purges EXCEPT ![i] = "failed"]
  /\ UNCHANGED <<logViewerState, flights, metaFlight, timers, store, micboard, hidden, saves, logging>>

\* purgeSucceeded without the call of stopLogAutoRefresh
purgeSucceeded_keepsTail(s) == clearView(s)

\* the purge handler's success path
purgeSucceeded(s) == clearView(stopTimerState(s))

PurgeOk(i) ==
  /\ purges[i] = "ok"
  /\ purges' = RemoveAt(purges, i)
  /\ logViewerState' = purgeSucceeded(logViewerState)
  /\ timers' = stopTimerSet(logViewerState, timers)
  /\ UNCHANGED <<flights, metaFlight, store, micboard, hidden, saves, logging>>

\* purgeFailed that resets the view and stops live tail as a success does
purgeFailed_resets(s) == clearView(stopTimerState(s))

\* the purge handler's catch: only the status line is written
purgeFailed(s) == s

PurgeFailed(i) ==
  /\ purges[i] = "failed"
  /\ purges' = RemoveAt(purges, i)
  /\ logViewerState' = purgeFailed(logViewerState)
  /\ UNCHANGED <<flights, metaFlight, timers, store, micboard, hidden, saves, logging>>

\* the settings form is submitted: saveLogSettings sends the payload
SaveLogSettings(payload) ==
  /\ LogViewShown
  /\ Len(saves) < MaxSaveFlights
  /\ saves' = Append(saves, [payload |-> payload, resp |-> Null])
  /\ UNCHANGED <<logViewerState, flights, purges, metaFlight, timers, store, micboard, hidden, logging>>

\* the store accepts the settings and answers with the normalised
\* configuration, or with ok:true alone
ServerSave(i, echo) ==
  /\ saves[i].resp = Null
  /\ logging' = saves[i].payload
  /\ saves' = [saves EXCEPT ![i].resp =
                 Some([ok |-> TRUE, logging |-> IF echo THEN Some(saves[i].payload) ELSE Null])]
  /\ UNCHANGED <<logViewerState, flights, purges, metaFlight, timers, store, micboard, hidden>>

\* HTTP 400, another non-2xx status, a network error or ok:false
ServerSaveFail(i) ==
  /\ saves[i].resp = Null
  /\ saves' = [saves EXCEPT ![i].resp = Some([ok |-> FALSE, logging |-> Null])]
  /\ UNCHANGED <<logViewerState, flights, purges, metaFlight, timers, store, micboard, hidden, logging>>

\* saveLogSettings resumes
SaveResolved(i) ==
  /\ saves[i].resp # Null
  /\ logViewerState' = saveSucceeded(logViewerState, saves[i])
  /\ saves' = RemoveAt(saves, i)
  /\ UNCHANGED <<flights, purges, metaFlight, timers, store, micboard, hidden, logging>>

\* the log view is opened: the configuration editor, then its Logs tab
OpenLogView ==
  \/ GoConfig
  \/ \E tab \in {CONFIG_TAB_LOGS} : ConfigTabClick(tab)

\* every way to switch views or to hide the page
Navigate ==
  \/ GoConfig
  \/ \E tab \in {CONFIG_TAB_DEVICES, CONFIG_TAB_LOGS} : ConfigTabClick(tab)
  \/ ShowPCOView
  \/ ClosePCOView
  \/ OpenBackground
  \/ BackgroundClose
  \/ InlineClose
  \/ VisibilityChange

\* live tail
LiveTail ==
  \/ StartLiveTail
  \/ StopLiveTail
  \/ Tick

\* a GET /api/logs request fails, or loadLogs resumes
Requests ==
  \/ \E i \in 1..Len(flights) : ServerFail(i)
  \/ \E i \in 1..Len(flights) : LoadLogsOk(i)
  \/ \E i \in 1..Len(flights) : LoadLogsFailed(i)

\* purge
Purge ==
  \/ PurgeDeclined
  \/ PurgeConfirmed
  \/ \E i \in 1..Len(purges) : ServerPurge(i)
  \/ \E i \in 1..Len(purges) : ServerPurgeFail(i)
  \/ \E i \in 1..Len(purges) : PurgeOk(i)
  \/ \E i \in 1..Len(purges) : PurgeFailed(i)

\* the settings form
Settings ==
  \/ \E payload \in SettingsChoices : SaveLogSettings(payload)
  \/ \E i \in 1..Len(saves) : \E echo \in BOOLEAN : ServerSave(i, echo)
  \/ \E i \in 1..Len(saves) : ServerSaveFail(i)
  \/ \E i \in 1..Len(saves) : SaveResolved(i)

\* a session in which the log view, once opened, stays open: paging, live
\* tail and purge against a store that grows and that recognises every
\* level and source
Next ==
  \/ OpenLogView
  \/ StoreAppend
  \/ \E d \in MetadataRecognisesAll : MetadataLoaded(d)
  \/ MetadataFailed
  \/ \E f \in FilterChoices : FilterSubmit(f)
  \/ \E f \in FilterChoices : RefreshClick(f)
  \/ LoadOlderClick
  \/ LiveTail
  \/ \E i \in 1..Len(flights) : \E r \in BOOLEAN : ServerAnswer(i, r)
  \/ Requests
  \/ Purge

Spec == Init /\ [][Next]_vars

\* a session with every view switch, against a store that does not grow
\* and answers in the order asked for
NextNav ==
  \/ Navigate
  \/ \E d \in MetadataRecognisesAll : MetadataLoaded(d)
  \/ MetadataFailed
  \/ \E f \in FilterChoices : RefreshClick(f)
  \/ LoadOlderClick
  \/ LiveTail
  \/ \E i \in 1..Len(flights) : ServerAnswer(i, FALSE)
  \/ Requests
  \/ Purge

SpecNav == Init /\ [][NextNav]_vars

\* a session on the filter form, against a store that may have stopped
\* recognising a level or a source
NextMeta ==
  \/ OpenLogView
  \/ \E d \in MetadataChoices : MetadataLoaded(d)
  \/ MetadataFailed
  \/ \E f \in LevelFilterChoices : FilterSubmit(f)
  \/ \E i \in 1..Len(flights) : ServerAnswer(i, FALSE)
  \/ Requests

SpecMeta == Init /\ [][NextMeta]_vars

\* a session on the settings form
NextSettings ==
  \/ OpenLogView
  \/ \E d \in MetadataRecognisesAll : MetadataLoaded(d)
  \/ MetadataFailed
  \/ \E i \in 1..Len(flights) : ServerAnswer(i, FALSE)
  \/ Requests
  \/ Settings

SpecSettings == Init /\ [][NextSettings]_vars

\* a session against a store of which nothing is assumed but the shape of
\* its answers: paging and live tail, the form left as it stands
NextRaw ==
  \/ OpenLogView
  \/ \E d \in MetadataRecognisesAll : MetadataLoaded(d)
  \/ MetadataFailed
  \/ \E f \in {logViewerState.filters} : RefreshClick(f)
  \/ LoadOlderClick
  \/ LiveTail
  \/ \E i \in 1..Len(flights) : \E idxs \in SUBSET (0..(store - 1)) : \E less \in BOOLEAN :
       ServerAnswerRaw(i, idxs, less)
  \/ Requests

SpecRaw == Init /\ [][NextRaw]_vars

\* the request in flight is answered by the store or fails on the way
Answered ==
  \E i \in 1..Len(flights) : ServerAnswer(i, FALSE) \/ ServerFail(i)

\* loadLogs resumes after its await
Resumed ==
  \E i \in 1..Len(flights) : LoadLogsOk(i) \/ LoadLogsFailed(i)

\* a session of filtering and live tail against a small store, in which
\* every request issued is eventually answered and loadLogs then resumes
\* (the browser settles every fetch and runs the continuation of a settled
\* promise)
NextLive ==
  \/ OpenLogView
  \/ \E d \in MetadataRecognisesAll : MetadataLoaded(d)
  \/ MetadataFailed
  \/ \E f \in FilterChoices : FilterSubmit(f)
  \/ LiveTail
  \/ Answered
  \/ Resumed

InitLive == Init /\ store <= MaxLiveStore

SpecLive == InitLive /\ [][NextLive]_vars /\ WF_vars(Answered) /\ WF_vars(Resumed)

(* ------------------------------ properties --------------------------- *)
Indices(seq) == [k \in 1..Len(seq) |-> seq[k].index]

\* C1: after every merge the index values >= 0 held in entries are pairwise
\* distinct: no store entry is held twice.
C1_NoDuplicateIndices ==
  \A j, k \in 1..Len(logViewerState.entries) :
    (j # k /\ logViewerState.entries[j].index >= 0)
      => logViewerState.entries[j].index # logViewerState.entries[k].index

\* C2: in every state entries is ordered by descending index.
C2_SortedDescending ==
  \A k \in 1..(Len(logViewerState.entries) - 1) :
    logViewerState.entries[k].index >= logViewerState.entries[k + 1].index

\* C2 witness: several pages and live-tail batches have been merged
C2_Witness ==
  /\ Len(logViewerState.entries) > PageSize
  /\ logViewerState.autoRefresh
  /\ ~logViewerState.loading

\* C3: at most one GET /api/logs request is in flight; a call made while
\* loading is true issues none.
C3_SingleFlight == Len(flights) <= 1

\* C3 witness: calls arrived while the one request was in flight
C3_Witness ==
  /\ Len(flights) = 1
  /\ logViewerState.loading
  /\ logViewerState.pending # Null

IsLoadOlder(req) == ~req.reset /\ ~req.newer

\* a request for the newest page: direction=desc, no cursor
NewestPageRequest(req) == req.direction = "desc" /\ req.cursor = Null /\ ~req.newer

Resolves(i) == LoadLogsOk(i) \/ LoadLogsFailed(i)

Pending == logViewerState.pending

\* C4: when a Load Older request resolves and a call with reset=true arrived
\* meanwhile, what follows is a reset load: the view is cleared, the replay
\* asks for the newest page under the current filters, and the successful
\* merge of a reset request leaves exactly the returned batch in entries.
C4_ResetWinsOverLoadOlder ==
  [][\A i \in 1..Len(flights) :
       /\ (IsLoadOlder(flights[i]) /\ Pending # Null /\ Val(Pending).reset /\ Resolves(i))
            => /\ Len(flights') = 1
               /\ NewestPageRequest(flights'[1])
               /\ flights'[1].filters = logViewerState'.filters
               /\ logViewerState'.entries = <<>>
       /\ (flights[i].reset /\ Pending = Null /\ LoadLogsOk(i))
            => LET raw == Val(flights[i].resp).entries
               IN Indices(logViewerState'.entries)
                    = DescSeq({Val(raw[k].index) : k \in 1..Len(raw)})]_vars

\* C5: a call that arrived while a request was in flight is never dropped:
\* when the request resolves, the replay asks for what the call asked for
\* (newest page for reset, newer than latestIndex for live tail, next older
\* page for Load Older), also when several calls were coalesced.
C5_PendingCallsAllServed ==
  [][\A i \in 1..Len(flights) :
       (Pending # Null /\ Resolves(i))
         => /\ Len(flights') = 1
            /\ Val(Pending).reset => NewestPageRequest(flights'[1])
            /\ Val(Pending).newer
                 => (flights'[1].cursor # Null
                       => Val(flights'[1].cursor) = logViewerState'.latestIndex)
            /\ (~Val(Pending).reset /\ Val(Pending).newer)
                 => flights'[1].direction = "asc"
            /\ (~Val(Pending).reset /\ ~Val(Pending).newer)
                 => (flights'[1].direction = "desc"
                     /\ flights'[1].cursor = logViewerState'.nextCursor)]_vars

\* C6 (as claimed): when a request fails, entries, nextCursor, hasMore and
\* latestIndex are what they were before the call was made, for every
\* combination of reset and newer: the call did not change them and the
\* failure path does not either.
C6_FailureRestoresPreCallView ==
  [][\A i \in 1..Len(flights) :
       LoadLogsFailed(i)
         => /\ flights[i].kept
            /\ Pending = Null => View(logViewerState') = View(logViewerState)]_vars

\* C6 (amended): the failure path merges nothing.  After a failed request
\* the four fields are what they were while the request was in flight (for
\* a reset call: the cleared values the call set before fetching); only a
\* coalesced reset replayed by the finally block clears them.
C6_FailureMergesNothing ==
  [][\A i \in 1..Len(flights) :
       LoadLogsFailed(i)
         => View(logViewerState')
              = IF Pending # Null /\ Val(Pending).reset THEN EmptyView
                ELSE View(logViewerState)]_vars

\* C6 witness: a live-tail request is about to fail while entries are held
C6_Witness ==
  /\ Len(flights) = 1
  /\ flights[1].resp # Null
  /\ ~Val(flights[1].resp).ok
  /\ flights[1].newer
  /\ logViewerState.entries # <<>>

\* C7 (as claimed): latestIndex never decreases.
C7_LatestIndexNeverDecreases ==
  [][logViewerState'.latestIndex >= logViewerState.latestIndex]_vars

\* C7 (amended): latestIndex decreases only when a load with reset=true
\* starts or a purge succeeds, and then the whole view is cleared; no merge,
\* failed load, failed purge or live-tail start/stop lowers it.
C7_LatestIndexLoweredOnlyByClear ==
  [][logViewerState'.latestIndex < logViewerState.latestIndex
       => /\ View(logViewerState') = EmptyView
          /\ \/ \E i \in 1..Len(purges) : PurgeOk(i)
             \/ /\ flights' # <<>>
                /\ flights'[Len(flights')].reset
                /\ flights'[Len(flights')].resp = Null]_vars

\* C7 witness: the newest page and then older pages were merged, down to
\* the oldest entry, and latestIndex still names the newest one
C7_Witness ==
  /\ logViewerState.latestIndex >= PageSize
  /\ ~logViewerState.autoRefresh
  /\ ~logViewerState.loading
  /\ logViewerState.nextCursor = Some(0)
  /\ Indices(logViewerState.entries) = DescSeq(0..logViewerState.latestIndex)

\* C8: right after a purge request succeeds the view is empty (entries = [],
\* nextCursor = null, hasMore = false, latestIndex = -1) and live tail is
\* stopped (autoRefresh false, no timer armed).
C8_PurgeResetsCleanly ==
  [][\A i \in 1..Len(purges) :
       PurgeOk(i)
         => /\ View(logViewerState') = EmptyView
            /\ ~logViewerState'.autoRefresh
            /\ logViewerState'.pollTimer = Null
            /\ timers' = {}]_vars

\* C8 witness: a purge has just succeeded under a live-tail request that was
\* sent with a cursor: the view is empty and the tail is off
C8_Witness ==
  /\ Len(flights) = 1
  /\ flights[1].newer
  /\ flights[1].cursor # Null
  /\ View(logViewerState) = EmptyView
  /\ ~logViewerState.autoRefresh
  /\ timers = {}
  /\ purges = <<>>

\* C9: after the filters change and loadLogs({reset: true}) is called, no
\* entry fetched under the old filters remains: entries hold an item that
\* does not match the current filters only while that reset call is still
\* waiting behind the request in flight.
C9_FilterResetDiscardsStalePages ==
  (Pending = Null \/ ~Val(Pending).reset)
    => \A k \in 1..Len(logViewerState.entries) :
         Matches(logViewerState.entries[k].index, logViewerState.filters)

\* C9 witness: the filters changed while a request sent under the old
\* filters was in flight and entries fetched under the old filters are held
C9_Witness ==
  /\ Len(flights) = 1
  /\ flights[1].filters # logViewerState.filters
  /\ Pending # Null
  /\ \E k \in 1..Len(logViewerState.entries) :
       ~Matches(logViewerState.entries[k].index, logViewerState.filters)

\* C10: a live-tail response (entries newer than the cursor sent) is merged
\* so that entries holds what it held plus exactly the returned indices,
\* each once, newest first, and latestIndex becomes the newest of them.
C10_LiveTailAddsExactlyTheNewEntries ==
  [][\A i \in 1..Len(flights) :
       (/\ flights[i].newer /\ ~flights[i].reset /\ flights[i].cursor # Null
        /\ (Pending = Null \/ ~Val(Pending).reset)
        /\ LoadLogsOk(i))
         => LET raw == Val(flights[i].resp).entries
                got == {Val(raw[k].index) : k \in 1..Len(raw)}
            IN /\ Indices(logViewerState'.entries)
                    = DescSeq(got) \o Indices(logViewerState.entries)
               /\ \A x \in got : x > Val(flights[i].cursor)
               /\ logViewerState'.latestIndex
                    = IF got = {} THEN logViewerState.latestIndex ELSE Max(got)]_vars

\* C10 witness: live tail is running and has brought entries up to the
\* newest index, every index from 0 held once
C10_Witness ==
  /\ logViewerState.autoRefresh
  /\ ~logViewerState.loading
  /\ logViewerState.latestIndex >= PageSize
  /\ logViewerState.nextCursor = Some(logViewerState.latestIndex)
  /\ Indices(logViewerState.entries) = DescSeq(0..logViewerState.latestIndex)

\* the request loadLogs has just issued is answered by a store holding n
\* entries and loadLogs resumes
ResolveAgainst(W, n, reversed) ==
  LET req == W.f[Len(W.f)]
      data == ReadLogs(n, req)
      k == Len(data.entries)
      out == IF reversed
             THEN [data EXCEPT !.entries = [j \in 1..k |-> data.entries[k + 1 - j]]]
             ELSE data
  IN finallyReplay([s |-> applyResponse(W.s, req, out), f |-> RemoveAt(W.f, Len(W.f))])

RECURSIVE LoadOlderUntilDone(_, _, _)
\* Load Older, clicked and answered until hasMore is false
LoadOlderUntilDone(W, n, fuel) ==
  IF ~W.s.hasMore \/ fuel = 0 THEN W
  ELSE LoadOlderUntilDone(ResolveAgainst(loadLogs(W, FALSE, FALSE), n, FALSE), n, fuel - 1)

MatchingIn(n, f) == {i \in 0..(n - 1) : Matches(i, f)}

\* C11: from any idle state of the open log view, a reset load followed by
\* Load Older repeated until hasMore is false, all answered by the store as
\* it is now, ends with entries holding every store entry that matches the
\* filters exactly once, in descending index order.
C11_FullScanHoldsEveryMatchingEntry ==
  (LogViewShown /\ ~logViewerState.loading)
    => LET W1 == ResolveAgainst(loadLogs(W0, TRUE, FALSE), store, FALSE)
           W2 == LoadOlderUntilDone(W1, store, store + 1)
       IN /\ ~W2.s.hasMore
          /\ ~W2.s.loading
          /\ Indices(W2.s.entries) = DescSeq(MatchingIn(store, logViewerState.filters))

\* C11 witness: a scan of more than one page has been done through the
\* Refresh and Load Older buttons and holds the whole store
C11_Witness ==
  /\ LogViewShown
  /\ ~logViewerState.loading
  /\ ~logViewerState.hasMore
  /\ ~logViewerState.autoRefresh
  /\ store > PageSize
  /\ logViewerState.filters.sources = {}
  /\ logViewerState.nextCursor = Some(0)
  /\ Len(logViewerState.entries) = store
  /\ Indices(logViewerState.entries) = DescSeq(0..(store - 1))

\* C12: every request issued by a load with reset=true, a coalesced replay
\* with newer also set included, asks for the newest page: direction=desc,
\* not newer, no cursor.
C12_ResetLoadAsksNewestPage ==
  \A i \in 1..Len(flights) : flights[i].reset => NewestPageRequest(flights[i])

\* C13: in no reachable state is live tail running while the log view is
\* hidden: autoRefresh is true and a poll timer is armed only while the
\* configuration editor shows its Logs tab in a visible document.
C13_NoLiveTailWhileHidden ==
  (logViewerState.autoRefresh \/ logViewerState.pollTimer # Null \/ timers # {})
    => LogViewShown

\* C14: starting live tail from STOPPED at once issues one request with
\* newer=true and then arms exactly one timer; every tick of that timer calls
\* loadLogs with newer=true and reset=false (a request of its own when none
\* is in flight, else the newer flag of pending is set and reset is left as
\* it was); startLogAutoRefresh called while RUNNING changes nothing.
C14_StartLoadsOnceAndArmsOneTimer ==
  /\ [](logViewerState.autoRefresh
          => /\ startLogAutoRefresh(C0) = C0
             /\ logViewerState.pollTimer # Null
             /\ timers = {Val(logViewerState.pollTimer)})
  /\ [][/\ StartLiveTail
             => /\ timers = {}
                /\ Cardinality(timers') = 1
                /\ logViewerState'.autoRefresh
                /\ Len(flights') = Len(flights) + 1
                /\ flights'[Len(flights')].newer
                /\ ~flights'[Len(flights')].reset
                /\ flights'[Len(flights')].resp = Null
        /\ (Tick /\ ~logViewerState.loading)
             => /\ Len(flights') = Len(flights) + 1
                /\ flights'[Len(flights')].newer
                /\ ~flights'[Len(flights')].reset
                /\ timers' = timers
        /\ (Tick /\ logViewerState.loading)
             => /\ flights' = flights
                /\ timers' = timers
                /\ Val(logViewerState'.pending).newer
                /\ Val(logViewerState'.pending).reset
                     = (Pending # Null /\ Val(Pending).reset)]_vars

\* C14 witness: live tail was started, its first request has resolved and a
\* tick has issued the next one
C14_Witness ==
  /\ logViewerState.autoRefresh
  /\ Cardinality(timers) = 1
  /\ Len(flights) = 1
  /\ flights[1].newer
  /\ flights[1].cursor # Null
  /\ logViewerState.entries # <<>>

\* C15: stopping live tail clears the timer, so that no tick calls loadLogs
\* afterwards (a tick happens only while autoRefresh is true), and leaves
\* the request in flight and the pending record alone; when the response
\* of a live-tail request arrives after the stop it is still merged as a
\* forward update: its entries newer than latestIndex are put in front of
\* the entries held.
C15_StopClearsTimerKeepsRequest ==
  [][/\ StopLiveTail
          => /\ timers' = {}
             /\ logViewerState'.pollTimer = Null
             /\ ~logViewerState'.autoRefresh
             /\ flights' = flights
             /\ logViewerState'.pending = logViewerState.pending
             /\ logViewerState'.loading = logViewerState.loading
             /\ View(logViewerState') = View(logViewerState)
     /\ Tick => logViewerState.autoRefresh
     /\ \A i \in 1..Len(flights) :
          (/\ ~logViewerState.autoRefresh
           /\ flights[i].newer /\ ~flights[i].reset
           /\ Pending = Null
           /\ LoadLogsOk(i))
            => LET raw == Val(flights[i].resp).entries
                   got == {Val(raw[k].index) : k \in 1..Len(raw)}
                   fresh == {x \in got : x > logViewerState.latestIndex}
               IN /\ Indices(logViewerState'.entries)
                       = DescSeq(fresh) \o Indices(logViewerState.entries)
                  /\ ~logViewerState'.autoRefresh
                  /\ timers' = {}]_vars

\* C15 witness: live tail has been stopped while its request was in flight
\* and the store has answered that request with new entries
C15_Witness ==
  /\ ~logViewerState.autoRefresh
  /\ timers = {}
  /\ Len(flights) = 1
  /\ flights[1].newer
  /\ flights[1].cursor # Null
  /\ flights[1].resp # Null
  /\ Val(flights[1].resp).ok
  /\ Val(flights[1].resp).entries # <<>>
  /\ logViewerState.latestIndex = Val(flights[1].cursor)

\* C16: a failed request leaves the gate re-enterable.  When it resolves
\* with no call waiting, loading is false, no request is in flight and the
\* Refresh, Purge and live-tail buttons are enabled; with a call waiting,
\* that call is replayed as a new request.  Whenever loading is false a call
\* of loadLogs issues a request: it is neither queued nor ignored.
C16_FailureLeavesGateOpen ==
  /\ [](/\ logViewerState.loading <=> flights # <<>>
        /\ ~logViewerState.loading
             => \A reset, newer \in BOOLEAN :
                  LET W == loadLogs(W0, reset, newer)
                  IN /\ Len(W.f) = 1
                     /\ W.f[1].resp = Null
                     /\ W.f[1].reset = reset
                     /\ W.f[1].newer = newer
                     /\ W.s.pending = Null)
  /\ [][\A i \in 1..Len(flights) :
          LoadLogsFailed(i)
            => IF Pending = Null
               THEN /\ ~logViewerState'.loading
                    /\ flights' = <<>>
                    /\ ~updateLogControls(logViewerState').refresh
                    /\ ~updateLogControls(logViewerState').purge
                    /\ ~updateLogControls(logViewerState').follow
                    /\ updateLogControls(logViewerState').loadOlder = ~logViewerState'.hasMore
               ELSE /\ Len(flights') = 1
                    /\ flights'[1].resp = Null
                    /\ logViewerState'.pending = Null]_vars

\* C16 witness: a Load Older request has failed and loadLogs is about to
\* resume in its catch block, with no call waiting
C16_Witness ==
  /\ Len(flights) = 1
  /\ flights[1].resp # Null
  /\ ~Val(flights[1].resp).ok
  /\ ~flights[1].reset
  /\ ~flights[1].newer
  /\ flights[1].cursor # Null
  /\ Pending = Null
  /\ logViewerState.hasMore

SaveOk(i) == SaveResolved(i) /\ Val(saves[i].resp).ok

\* C17 (as claimed): logViewerState.settings changes only when a POST
\* /api/logs/settings request resolves with a successful response carrying
\* ok:true.
C17_SettingsChangeOnlyOnSaveOk ==
  [][logViewerState'.settings # logViewerState.settings
       => \E i \in 1..Len(saves) : SaveOk(i)]_vars

\* C17 (amended): settings changes only when a POST /api/logs/settings
\* request resolves with ok:true, to the configuration the store returned
\* (or to the payload sent when it returned none), or when the metadata
\* fetch of the initial load succeeds, to the configuration the store has
\* active; a save that fails (non-2xx, network error, ok:false) leaves
\* settings as it was.
C17_SettingsChangeOnlyOnSuccess ==
  [][/\ logViewerState'.settings # logViewerState.settings
          => \/ \E i \in 1..Len(saves) :
                  /\ SaveOk(i)
                  /\ logViewerState'.settings
                       = IF Val(saves[i].resp).logging # Null
                         THEN Val(saves[i].resp).logging
                         ELSE Some(saves[i].payload)
             \/ /\ metaFlight /\ ~metaFlight'
                /\ logViewerState'.settings = Some(logging)
     /\ \A i \in 1..Len(saves) :
          (SaveResolved(i) /\ ~Val(saves[i].resp).ok)
            => logViewerState' = logViewerState]_vars

\* C17 witness: the store has rejected a save whose payload differs from
\* the settings held, and saveLogSettings is about to resume
C17_Witness ==
  \E i \in 1..Len(saves) :
    /\ saves[i].resp # Null
    /\ ~Val(saves[i].resp).ok
    /\ logViewerState.settings # Null
    /\ logViewerState.settings # Some(saves[i].payload)

ValidFor(f, levels, sources) ==
  /\ f.level = "" \/ f.level \in levels
  /\ f.sources \subseteq sources

C19_ResetIsIdempotent ==
  (LogViewShown /\ ~logViewerState.loading)
    => \A r1, r2 \in BOOLEAN :
         LET W1 == ResolveAgainst(loadLogs(W0, TRUE, FALSE), store, r1)
             W2 == ResolveAgainst(loadLogs(W1, TRUE, FALSE), store, r2)
         IN /\ View(W2.s) = View(W1.s)
            /\ ~W1.s.loading /\ ~W2.s.loading
            /\ W2.f = <<>>

\* C19 witness: a reset load has resolved with a full page while older
\* entries remain in the store; a second one would fetch the same page
C19_Witness ==
  /\ LogViewShown
  /\ ~logViewerState.loading
  /\ ~logViewerState.autoRefresh
  /\ logViewerState.hasMore
  /\ Len(logViewerState.entries) = PageSize
  /\ logViewerState.latestIndex = store - 1
  /\ logViewerState.nextCursor = Some(logViewerState.entries[PageSize].index)
  /\ View(ResolveAgainst(loadLogs(W0, TRUE, FALSE), store, TRUE).s) = View(logViewerState)

PendingFlag(p, flag) == p # Null /\ Val(p)[flag]

\* C20: a call made while a request is in flight issues no request and is
\* merged into the one pending record: the record's reset flag becomes the
\* OR of the call's reset flag and the flag it had, and likewise for newer,
\* so a flag once set stays set until the replay.  When the request in
\* flight resolves, by success or by failure, exactly one replay with those
\* flags is started and pending becomes null; with nothing pending no
\* request is started.
C20_PendingIsTheOrOfTheCalls ==
  /\ [](/\ Pending # Null => logViewerState.loading
        /\ logViewerState.loading
             => \A reset, newer \in BOOLEAN :
                  LET W == loadLogs(W0, reset, newer)
                  IN /\ W.f = flights
                     /\ W.s = [logViewerState EXCEPT !.pending =
                                 Some([reset |-> reset \/ PendingFlag(Pending, "reset"),
                                       newer |-> newer \/ PendingFlag(Pending, "newer")])])
  /\ [][/\ (logViewerState.loading /\ flights' = flights)
             => /\ PendingFlag(Pending, "reset") => PendingFlag(logViewerState'.pending, "reset")
                /\ PendingFlag(Pending, "newer") => PendingFlag(logViewerState'.pending, "newer")
        /\ \A i \in 1..Len(flights) :
             (flights[i].resp # Null /\ flights' # flights /\ Resolves(i))
               => /\ logViewerState'.pending = Null
                  /\ IF Pending = Null THEN flights' = <<>>
                     ELSE /\ Len(flights') = 1
                          /\ flights'[1].resp = Null
                          /\ flights'[1].reset = Val(Pending).reset
                          /\ flights'[1].newer = Val(Pending).newer]_vars

\* C20 witness: a reset call and a tick have both arrived while a Load Older
\* request was in flight
C20_Witness ==
  /\ Len(flights) = 1
  /\ IsLoadOlder(flights[1])
  /\ Pending = Some([reset |-> TRUE, newer |-> TRUE])

\* C21: the Load Older cursor stays the boundary of the oldest page held.
\* A live-tail merge leaves nextCursor and hasMore as they were, and every
\* batch merged by a Load Older request holds only indices lower than every
\* index already held.
C21_LiveTailKeepsLoadOlderCursor ==
  [][\A i \in 1..Len(flights) :
       /\ (flights[i].newer /\ ~flights[i].reset /\ Pending = Null /\ LoadLogsOk(i))
            => /\ logViewerState'.nextCursor = logViewerState.nextCursor
               /\ logViewerState'.hasMore = logViewerState.hasMore
       /\ (IsLoadOlder(flights[i]) /\ LoadLogsOk(i))
            => LET raw == Val(flights[i].resp).entries
               IN \A k \in 1..Len(raw) : \A j \in 1..Len(logViewerState.entries) :
                    normalizeEntry(raw[k]).index < logViewerState.entries[j].index]_vars

Range(seq) == {seq[k] : k \in 1..Len(seq)}

Count(seq, e) == Cardinality({k \in 1..Len(seq) : seq[k] = e})

Normalized(raw) == [k \in 1..Len(raw) |-> normalizeEntry(raw[k])]

\* C22: a live-tail merge adds to entries exactly the batch entries whose
\* index is greater than the latestIndex held when the response is
\* processed: batch entries at or below latestIndex are dropped, every entry
\* held is kept, and a batch with no fresh entry leaves entries unchanged
\* (seen whenever no coalesced reset clears the view in the same step).
C22_LiveTailMergeAddsOnlyFresh ==
  [][\A i \in 1..Len(flights) :
       (flights[i].newer /\ (Pending = Null \/ ~Val(Pending).reset) /\ LoadLogsOk(i))
         => LET batch == Normalized(Val(flights[i].resp).entries)
                held == logViewerState.entries
                now == logViewerState'.entries
                latest == logViewerState.latestIndex
            IN /\ \A e \in Range(batch) \cup Range(held) \cup Range(now) :
                    Count(now, e) = Count(held, e)
                                      + (IF e.index > latest THEN Count(batch, e) ELSE 0)
               /\ (\A k \in 1..Len(batch) : batch[k].index <= latest) => now = held]_vars

\* C22 witness: a live-tail request has been answered with a page that holds
\* an entry already known and a fresh one, while entries are held
C22_Witness ==
  /\ Len(flights) = 1
  /\ flights[1].newer
  /\ Pending = Null
  /\ flights[1].resp # Null
  /\ Val(flights[1].resp).ok
  /\ logViewerState.entries # <<>>
  /\ LET batch == Normalized(Val(flights[1].resp).entries)
     IN /\ \E k \in 1..Len(batch) :
             batch[k].index >= 0 /\ batch[k].index <= logViewerState.latestIndex
        /\ \E k \in 1..Len(batch) : batch[k].index > logViewerState.latestIndex

\* C23: once a purge has succeeded nothing fetched before it is shown.  In
\* particular, with no purge outstanding, entries, latestIndex and nextCursor
\* name only indices the store holds now: a request that was in flight or
\* pending when the purge succeeded does not bring back what the store has
\* dropped.
C23_NothingShownThatTheStoreDropped ==
  purges = <<>>
    => /\ \A k \in 1..Len(logViewerState.entries) : logViewerState.entries[k].index < store
       /\ logViewerState.latestIndex < store
       /\ logViewerState.nextCursor # Null => Val(logViewerState.nextCursor) < store

\* what the request must carry when it is built from the state s
RightCursor(req, s) ==
  /\ req.limit = PageSize
  /\ req.filters = s.filters
  /\ req.newer
       => /\ req.direction = "asc"
          /\ req.cursor = IF s.latestIndex >= 0 THEN Some(s.latestIndex) ELSE Null
  /\ (~req.newer /\ ~req.reset)
       => /\ req.direction = "desc"
          /\ req.cursor = s.nextCursor
  /\ (~req.newer /\ req.reset)
       => /\ req.direction = "desc"
          /\ req.cursor = Null

\* C24: the request built by loadLogs carries the cursor of its direction.
\* A request with newer set sends direction=asc and cursor=latestIndex when
\* latestIndex >= 0, no cursor otherwise; a Load Older request sends
\* direction=desc and cursor=nextCursor when nextCursor is not null, no
\* cursor otherwise; a reset request without newer sends direction=desc and
\* no cursor.  This holds for every request issued, by a call or by a replay,
\* and for every call loadLogs could take in an idle state.
C24_RequestCarriesCursorOfItsDirection ==
  /\ [](~logViewerState.loading
          => \A reset, newer \in BOOLEAN :
               LET W == loadLogs(W0, reset, newer)
                   req == W.f[Len(W.f)]
               IN /\ req.reset = reset /\ req.newer = newer
                  /\ RightCursor(req, W.s)
                  /\ ~reset => RightCursor(req, logViewerState))
  /\ [][(flights' # flights /\ flights' # <<>> /\ flights'[Len(flights')].resp = Null)
          => RightCursor(flights'[Len(flights')], logViewerState')]_vars

\* C24 witness: with live tail running, Load Older has been asked for and
\* carries the cursor of the oldest page, not the newest index held
C24_Witness ==
  /\ Len(flights) = 1
  /\ IsLoadOlder(flights[1])
  /\ flights[1].resp = Null
  /\ flights[1].direction = "desc"
  /\ logViewerState.autoRefresh
  /\ logViewerState.latestIndex >= 0
  /\ flights[1].cursor # Null
  /\ Val(flights[1].cursor) < logViewerState.latestIndex

\* the maximum index over seq, or floor when no entry lies above it
MaxIndexOver(seq, floor) == Max({floor} \cup {seq[k].index : k \in 1..Len(seq)})

\* C25: in every state latestIndex is the maximum index over the entries
\* held, and -1 when entries is empty or holds only entries without index;
\* after each successful merge latestIndex is the maximum of its value
\* before the merge and of the indices of the merged entries.
C25_LatestIndexIsMaxOfEntries ==
  /\ [](logViewerState.latestIndex = MaxIndexOver(logViewerState.entries, -1))
  /\ [][\A i \in 1..Len(flights) :
          (LoadLogsOk(i) /\ (Pending = Null \/ ~Val(Pending).reset))
            => logViewerState'.latestIndex
                 = MaxIndexOver(logViewerState'.entries, logViewerState.latestIndex)]_vars

\* C25 witness: after several merges the client is idle and holds entries
\* with an index next to an entry without one
C25_Witness ==
  /\ ~logViewerState.loading
  /\ Len(logViewerState.entries) = MaxHeld
  /\ logViewerState.latestIndex >= 1
  /\ \E k \in 1..Len(logViewerState.entries) : logViewerState.entries[k].index = -1
  /\ \E k \in 1..Len(logViewerState.entries) : logViewerState.entries[k].index = 0

\* loadLogs resumes on the request it issued last: with the answer the
\* request already holds, else with the store's answer
ResumeLast(W, n) ==
  LET req == W.f[Len(W.f)]
      data == IF req.resp # Null THEN Val(req.resp) ELSE ReadLogs(n, req)
  IN finallyReplay([s |-> applyResponse(W.s, req, data), f |-> RemoveAt(W.f, Len(W.f))])

\* C26: when startLogAutoRefresh is called while a Load Older request is in
\* flight (live tail off, nothing pending), the request stays in flight and
\* no other is issued; live tail is on with one timer; when the Load Older
\* response arrives its entries are added to the entries held, and exactly
\* one request with newer=true and reset=false is issued as the replay,
\* after which nothing is pending and, once it resolves, no further request
\* follows.
C26_StartDuringLoadOlderCoalesces ==
  (/\ Len(flights) = 1
   /\ IsLoadOlder(flights[1])
   /\ (flights[1].resp # Null => Val(flights[1].resp).ok)
   /\ ~logViewerState.autoRefresh
   /\ Pending = Null)
    => LET C1 == startLogAutoRefresh(C0)
           W1 == [s |-> C1.s, f |-> C1.f]
           W2 == ResumeLast(W1, store)
           W3 == ResumeLast(W2, store)
           data == IF flights[1].resp # Null THEN Val(flights[1].resp)
                   ELSE ReadLogs(store, flights[1])
           batch == Normalized(data.entries)
       IN /\ C1.f = flights
          /\ C1.s.loading
          /\ C1.s.pending = Some([reset |-> FALSE, newer |-> TRUE])
          /\ View(C1.s) = View(logViewerState)
          /\ C1.s.autoRefresh
          /\ C1.T = {Val(C1.s.pollTimer)}
          /\ \A e \in Range(batch) \cup Range(logViewerState.entries) \cup Range(W2.s.entries) :
               Count(W2.s.entries, e) = Count(logViewerState.entries, e) + Count(batch, e)
          /\ Len(W2.f) = 1
          /\ W2.f[1].newer /\ ~W2.f[1].reset /\ W2.f[1].resp = Null
          /\ W2.f[1].direction = "asc"
          /\ W2.s.pending = Null
          /\ W2.s.autoRefresh
          /\ W3.f = <<>>
          /\ ~W3.s.loading

\* C26 witness: a Load Older request has been answered with older entries
\* while live tail is off and nothing is pending
C26_Witness ==
  /\ Len(flights) = 1
  /\ IsLoadOlder(flights[1])
  /\ flights[1].resp # Null
  /\ Val(flights[1].resp).ok
  /\ Val(flights[1].resp).entries # <<>>
  /\ ~logViewerState.autoRefresh
  /\ Pending = Null
  /\ logViewerState.entries # <<>>
  /\ store > logViewerState.latestIndex + 1

\* how many entries of seq carry index -1
IndexLess(seq) == Cardinality({k \in 1..Len(seq) : seq[k].index = -1})

\* how many records of a page carry neither index nor cursor
RawIndexLess(raw) ==
  Cardinality({k \in 1..Len(raw) : raw[k].index = Null /\ raw[k].cursor = Null})

\* C27 (as claimed): a record the store returns without index and cursor is
\* in entries, with index -1, after the merge of its batch, whether the
\* merge is that of a reset, of Load Older or of live tail.
C27_IndexLessEntriesAlwaysShown ==
  [][\A i \in 1..Len(flights) :
       (/\ LoadLogsOk(i)
        /\ (Pending = Null \/ ~Val(Pending).reset)
        /\ RawIndexLess(Val(flights[i].resp).entries) > 0)
         => \E k \in 1..Len(logViewerState'.entries) : logViewerState'.entries[k].index = -1]_vars

\* C27 (amended): a record without index and cursor is given index -1.  The
\* merge of a reset and the merge of Load Older put every such record of the
\* batch in entries; a live-tail merge drops them all, as -1 is never
\* greater than latestIndex, and keeps those already held.
C27_IndexLessShownExceptByLiveTail ==
  [][\A i \in 1..Len(flights) :
       (LoadLogsOk(i) /\ (Pending = Null \/ ~Val(Pending).reset))
         => LET raw == Val(flights[i].resp).entries
            IN IndexLess(logViewerState'.entries)
                 = IF flights[i].newer THEN IndexLess(logViewerState.entries)
                   ELSE IF flights[i].reset THEN RawIndexLess(raw)
                   ELSE IndexLess(logViewerState.entries) + RawIndexLess(raw)]_vars

\* C27 witness: an entry without index is held, put there by a reset or a
\* Load Older merge next to an entry with an index, and a live-tail request
\* has been answered with a page that lists another one
C27_Witness ==
  /\ Len(flights) = 1
  /\ flights[1].newer
  /\ Pending = Null
  /\ flights[1].resp # Null
  /\ Val(flights[1].resp).ok
  /\ RawIndexLess(Val(flights[1].resp).entries) = 1
  /\ IndexLess(logViewerState.entries) >= 1
  /\ logViewerState.latestIndex >= 0

\* a step in which loadLogs is called from outside: it issues a request
\* when none is in flight, or changes the pending record
CallStep ==
  \/ flights = <<>> /\ flights' # <<>>
  \/ logViewerState'.pending # Null /\ logViewerState'.pending # logViewerState.pending

Idle == ~logViewerState.loading /\ logViewerState.pending = Null /\ flights = <<>>

\* C28: pending is non-null only while a request is in flight; when the
\* request in flight resolves with a call pending, the call is replayed in
\* the same step and pending is null again; and if every request issued
\* eventually resolves and from some point on loadLogs is no longer called,
\* the client eventually is idle, with loading false and pending null, and
\* stays so.
C28_EventuallyIdle ==
  /\ [](Pending # Null => (logViewerState.loading /\ flights # <<>>))
  /\ [][\A i \in 1..Len(flights) :
          (flights[i].resp # Null /\ Pending # Null /\ Resolves(i))
            => /\ logViewerState'.pending = Null
               /\ Len(flights') = 1
               /\ flights'[1].resp = Null
               /\ logViewerState'.loading]_vars
  /\ (<>[][~CallStep]_vars) => <>[]Idle

\* C28 witness: two calls have been coalesced behind a request the store
\* has answered; their replay is still to come
C28_Witness ==
  /\ Len(flights) = 1
  /\ flights[1].resp # Null
  /\ logViewerState.loading
  /\ Pending # Null
  /\ Val(Pending).reset
  /\ Val(Pending).newer
  /\ logViewerState.autoRefresh

\* C29: in every state the live-tail flag and the timer agree: autoRefresh
\* is true exactly when pollTimer holds a handle, that handle is the one
\* armed interval timer, and no timer is armed when autoRefresh is false:
\* at most one interval timer exists, whatever the sequence of start, stop,
\* tab switch, view switch, visibility change and purge.
C29_FlagAndTimerAgree ==
  /\ logViewerState.autoRefresh <=> logViewerState.pollTimer # Null
  /\ timers = IF logViewerState.autoRefresh THEN {Val(logViewerState.pollTimer)} ELSE {}
  /\ Cardinality(timers) <= 1

\* C29 witness: the document became hidden while live tail was running and
\* its request was in flight: the flag is off and no timer is armed
C29_Witness ==
  /\ hidden
  /\ logViewerState.initialized
  /\ ~logViewerState.autoRefresh
  /\ logViewerState.pollTimer = Null
  /\ timers = {}
  /\ Len(flights) = 1
  /\ flights[1].newer
  /\ flights[1].cursor # Null

\* C30: a purge declined at the prompt and a purge request that fails leave
\* entries, nextCursor, hasMore and latestIndex as they were and live tail
\* in the state it was in (flag, handle and armed timer), and touch neither
\* the request in flight nor the pending record.
C30_FailedPurgeChangesNothing ==
  [][/\ PurgeDeclined
          => /\ logViewerState' = logViewerState
             /\ timers' = timers
             /\ flights' = flights
     /\ \A i \in 1..Len(purges) :
          (purges[i] = "failed" /\ PurgeFailed(i))
            => /\ View(logViewerState') = View(logViewerState)
               /\ logViewerState'.autoRefresh = logViewerState.autoRefresh
               /\ logViewerState'.pollTimer = logViewerState.pollTimer
               /\ logViewerState'.loading = logViewerState.loading
               /\ logViewerState'.pending = logViewerState.pending
               /\ timers' = timers
               /\ flights' = flights]_vars

\* C30 witness: a purge request has failed while live tail is running with
\* entries held and more history to page through
C30_Witness ==
  /\ \E i \in 1..Len(purges) : purges[i] = "failed"
  /\ logViewerState.autoRefresh
  /\ timers # {}
  /\ logViewerState.entries # <<>>
  /\ logViewerState.hasMore

====
